---------------------------- MODULE Spec2Model ----------------------------
(***************************************************************************)
(* Model of matlab/bayesoptextras.h: the MEX helper layer of bayesopt.     *)
(*                                                                         *)
(*   struct_value / struct_size / struct_array / struct_string             *)
(*        read one named field of a MATLAB struct into a native variable   *)
(*   load_parameters   builds a bopt_params record from a MATLAB struct    *)
(*   user_function     adapts a MATLAB function to the native objective    *)
(*                                                                         *)
(* Doubles are modelled as integers counting tenths (27 is 2.7), so that   *)
(* the (size_t) narrowing in struct_size is a real truncation.             *)
(***************************************************************************)
EXTENDS Integers, Sequences, FiniteSets, TLC

VARIABLES
  config,       \* the mxArray struct handed to load_parameters
  loadResult,   \* outcome of load_parameters: status, record, printed lines
  accCall,      \* one accessor call: kind, field name, destination, struct
  accPre,       \* caller's memory before the accessor call
  accPost,      \* state after the accessor call
  d,            \* user_function_data
  pc,           \* position of user_function: "idle" or "invoking"
  call,         \* arguments of the current/last user_function call
  held,         \* number of live mxArrays created by mexCallMATLAB
  last,         \* what the last user_function call did
  hist          \* bookkeeping over the run of the callback

vars == <<config, loadResult, accCall, accPre, accPost,
          d, pc, call, held, last, hist>>

loadVars == <<config, loadResult>>
accVars  == <<accCall, accPre, accPost>>
evalVars == <<d, pc, call, held, last, hist>>

-----------------------------------------------------------------------------
(* Bounds *)

Capacity   == 2   \* length of the theta/s_theta/mu/s_mu buffers (scaled down)
MaxPresent == 2   \* at most this many fields present in a configuration
MaxCalls   == 3   \* user_function calls per run
Dim        == 2   \* dimension n of the point passed to user_function

MaxLen == Capacity + 1      \* longest array a configuration supplies

-----------------------------------------------------------------------------
(* mxArray values and the mx* queries used by the header *)

NULL == [cls |-> "NULL"]

RealArray(len) ==
  [cls |-> "double", cplx |-> FALSE, m |-> 1, n |-> len,
   pr |-> [i \in 1..len |-> 10 * i + 17], str |-> ""]

ComplexScalar ==
  [cls |-> "double", cplx |-> TRUE, m |-> 1, n |-> 1,
   pr |-> <<27>>, str |-> ""]

CharArray(text) ==
  [cls |-> "char", cplx |-> FALSE, m |-> 1, n |-> 1,
   pr |-> <<>>, str |-> text]

mxIsNumeric(val) == val.cls = "double"
mxIsDouble(val)  == val.cls = "double"
mxIsComplex(val) == val.cplx
mxIsChar(val)    == val.cls = "char"
mxGetM(val)      == val.m
mxGetN(val)      == val.n
mxGetPr(val)     == val.pr
mxGetScalar(val) == val.pr[1]
mxArrayToString(val) == val.str

mxGetField(s, name) == IF name \in DOMAIN s THEN s[name] ELSE NULL

\* (size_t) of a non-negative double: truncation toward zero
SizeT(x) == x \div 10

-----------------------------------------------------------------------------
(* The optimizer library's interface (parameters.h), as used by the header *)

SurrogateNames ==
  <<"GAUSSIAN_PROCESS", "GAUSSIAN_PROCESS_ML", "STUDENT_T_PROCESS_JEFFREYS">>

LearnNames == <<"L_ML", "L_MAP", "L_LOO">>

\* enumeration members are 0, 1, 2; -1 is "no such name"
NameIndex(names, text) ==
  IF \E i \in 1..Len(names) : names[i] = text
  THEN (CHOOSE i \in 1..Len(names) : names[i] = text) - 1
  ELSE -1

surrogate2str(e) == SurrogateNames[e + 1]
str2surrogate(text) == NameIndex(SurrogateNames, text)
learn2str(e) == LearnNames[e + 1]
str2learn(text) == NameIndex(LearnNames, text)

ZeroBuffer == [i \in 1..Capacity |-> 0]

initialize_parameters_to_default ==
  [ n_iterations       |-> 300,
    n_inner_iterations |-> 500,
    n_init_samples     |-> 30,
    verbose_level      |-> 1,
    alpha              |-> 10,
    beta               |-> 10,
    noise              |-> 1,
    kernel_theta       |-> [ZeroBuffer EXCEPT ![1] = 10],
    kernel_s_theta     |-> [ZeroBuffer EXCEPT ![1] = 100],
    kernel_n_theta     |-> 1,
    kernel_name        |-> "kMaternISO3",
    mean_mu            |-> [ZeroBuffer EXCEPT ![1] = 10],
    mean_s_mu          |-> [ZeroBuffer EXCEPT ![1] = 10],
    mean_n_mu          |-> 1,
    mean_name          |-> "mOne",
    log_filename       |-> "bayesopt.log",
    crit_name          |-> "cEI",
    surr_name          |-> 0,
    l_type             |-> 1 ]

ParamFields == DOMAIN initialize_parameters_to_default

\* the member that follows a buffer in its sub-record
Adjacent(result) ==
  IF result \in {"kernel_theta", "kernel_s_theta"}
  THEN "kernel_n_theta" ELSE "mean_n_mu"

-----------------------------------------------------------------------------
(* Execution state of a MEX routine:                                       *)
(*   status  "running", "returned", "crash" or the mexErrMsgTxt message    *)
(*   mem     the caller's variables, by name                               *)
(*   out     the lines printed with mexPrintf                              *)
(*   past    TRUE once a memcpy has written past the end of a buffer       *)

mexErrMsgTxt(s, msg) == [s EXCEPT !.status = msg]

mexPrintf(s, line) == [s EXCEPT !.out = Append(@, line)]

NotFound(name) == <<"Field %s not found. Default not modified.", name>>

\* memcpy of more than Capacity doubles into a Capacity-sized member:
\* undefined behaviour.  The routine may die, or go on with the member that
\* follows the buffer holding any value.
BufferOverrun(s, result) ==
  LET t == [s EXCEPT !.past = TRUE] IN
    {[t EXCEPT !.status = "crash"], t}
    \cup {[t EXCEPT !.mem[Adjacent(result)] = k] : k \in 0..MaxLen}

struct_value(s, params, name, result) ==
  LET val == mxGetField(params, name) IN
  IF val # NULL
  THEN IF ~(mxIsNumeric(val) /\ ~mxIsComplex(val)
            /\ mxGetM(val) * mxGetN(val) = 1)
       THEN {mexErrMsgTxt(s, "param fields must be real scalars")}
       ELSE {[s EXCEPT !.mem[result] = mxGetScalar(val)]}
  ELSE {mexPrintf(s, NotFound(name))}

struct_array(s, params, name, n, result) ==
  LET val == mxGetField(params, name) IN
  IF val # NULL
  THEN IF ~(mxIsNumeric(val) /\ ~mxIsComplex(val))
       THEN {mexErrMsgTxt(s, "Param fields must be vector")}
       ELSE LET count == mxGetM(val) * mxGetN(val)
                s1 == [s EXCEPT !.mem[n] = count]
                s2 == [s1 EXCEPT !.mem[result] =
                         [i \in 1..Capacity |->
                            IF i <= count THEN mxGetPr(val)[i] ELSE @[i]]]
            IN IF count <= Capacity THEN {s2} ELSE BufferOverrun(s2, result)
  ELSE {mexPrintf(s, NotFound(name))}

\* variant: an absent field clears the destination
struct_size_clearing(s, params, name, result) ==
  LET val == mxGetField(params, name) IN
  IF val # NULL
  THEN IF ~(mxIsNumeric(val) /\ ~mxIsComplex(val)
            /\ mxGetM(val) * mxGetN(val) = 1)
       THEN {mexErrMsgTxt(s, "param fields must be real scalars")}
       ELSE {[s EXCEPT !.mem[result] = SizeT(mxGetScalar(val))]}
  ELSE {mexPrintf([s EXCEPT !.mem[result] = 0], NotFound(name))}

struct_size(s, params, name, result) ==
  LET val == mxGetField(params, name) IN
  IF val # NULL
  THEN IF ~(mxIsNumeric(val) /\ ~mxIsComplex(val)
            /\ mxGetM(val) * mxGetN(val) = 1)
       THEN {mexErrMsgTxt(s, "param fields must be real scalars")}
       ELSE {[s EXCEPT !.mem[result] = SizeT(mxGetScalar(val))]}
  ELSE {mexPrintf(s, NotFound(name))}

\* result is the callee's own copy of the pointer: assigning to it changes
\* nothing the caller can see.
struct_string(s, params, name, result) ==
  LET val == mxGetField(params, name) IN
  IF val # NULL
  THEN IF mxIsChar(val)
       THEN LET local == [result |-> mxArrayToString(val)] IN {s}
       ELSE {mexErrMsgTxt(s, "Method name must be a string")}
  ELSE {mexPrintf(s, NotFound(name))}

\* CHECK0(cond, msg): if (!(cond)) mexErrMsgTxt(msg);
CHECK0(s, cond, msg) == IF ~cond THEN mexErrMsgTxt(s, msg) ELSE s

\* sequencing: a statement runs only if no earlier one left the routine
Then(S, stmt(_)) ==
  UNION {IF s.status = "running" THEN stmt(s) ELSE {s} : s \in S}

Locals == [n_theta |-> 0, n_mu |-> 0, s_str |-> "", l_str |-> ""]

load_parameters(params) ==
  LET parameters == initialize_parameters_to_default
      e0 == [status |-> "running",
             mem |-> [Locals EXCEPT !.n_theta = parameters.kernel_n_theta,
                                    !.n_mu = parameters.mean_n_mu]
                     @@ parameters,
             out |-> <<>>, past |-> FALSE]
      e1  == struct_size(e0, params, "n_iterations", "n_iterations")
      e2  == Then(e1, LAMBDA s : struct_size(s, params,
                        "n_inner_iterations", "n_inner_iterations"))
      e3  == Then(e2, LAMBDA s : struct_size(s, params,
                        "n_init_iterations", "n_init_samples"))
      e4  == Then(e3, LAMBDA s : struct_size(s, params,
                        "verbose_level", "verbose_level"))
      e5  == Then(e4, LAMBDA s : struct_value(s, params, "alpha", "alpha"))
      e6  == Then(e5, LAMBDA s : struct_value(s, params, "beta", "beta"))
      e7  == Then(e6, LAMBDA s : struct_value(s, params, "noise", "noise"))
      e8  == Then(e7, LAMBDA s : struct_array(s, params, "theta",
                        "kernel_n_theta", "kernel_theta"))
      e9  == Then(e8, LAMBDA s : struct_array(s, params, "s_theta",
                        "n_theta", "kernel_s_theta"))
      e10 == Then(e9, LAMBDA s : {CHECK0(s,
                        s.mem.kernel_n_theta = s.mem.n_theta,
                        "Error processing kernel parameters")})
      e11 == Then(e10, LAMBDA s : struct_array(s, params, "mu",
                        "mean_n_mu", "mean_mu"))
      e12 == Then(e11, LAMBDA s : struct_array(s, params, "s_mu",
                        "n_mu", "mean_s_mu"))
      e13 == Then(e12, LAMBDA s : {CHECK0(s,
                        s.mem.mean_n_mu = s.mem.n_mu,
                        "Error processing mean parameters")})
      e14 == Then(e13, LAMBDA s : struct_string(s, params,
                        "log_filename", "log_filename"))
      e15 == Then(e14, LAMBDA s : struct_string(s, params,
                        "kernel_name", "kernel_name"))
      e16 == Then(e15, LAMBDA s : struct_string(s, params,
                        "mean_name", "mean_name"))
      e17 == Then(e16, LAMBDA s : struct_string(s, params,
                        "crit_name", "crit_name"))
      e18 == Then(e17, LAMBDA s :
               {[s EXCEPT !.mem.s_str = surrogate2str(s.mem.surr_name)]})
      e19 == Then(e18, LAMBDA s : struct_string(s, params,
                        "surr_name", "s_str"))
      e20 == Then(e19, LAMBDA s :
               {[s EXCEPT !.mem.surr_name = str2surrogate(s.mem.s_str)]})
      e21 == Then(e20, LAMBDA s :
               {[s EXCEPT !.mem.l_str = learn2str(s.mem.l_type)]})
      e22 == Then(e21, LAMBDA s : struct_string(s, params,
                        "l_type", "l_str"))
      e23 == Then(e22, LAMBDA s :
               {[s EXCEPT !.mem.l_type = str2learn(s.mem.l_str)]})
  IN Then(e23, LAMBDA s : {[s EXCEPT !.status = "returned"]})

\* what the caller of a MEX routine gets: the record only on return
NoRecord == [none |-> TRUE]

Delivered(s) ==
  [status |-> s.status,
   record |-> IF s.status = "returned"
              THEN [f \in ParamFields |-> s.mem[f]] ELSE NoRecord,
   out    |-> s.out,
   past   |-> s.past]


-----------------------------------------------------------------------------
(* Loading a configuration *)

FieldNames ==
  {"n_iterations", "n_inner_iterations", "n_init_iterations",
   "verbose_level", "alpha", "beta", "noise",
   "theta", "s_theta", "mu", "s_mu",
   "log_filename", "kernel_name", "mean_name", "crit_name",
   "surr_name", "l_type"}

\* what a field of the struct may hold
Inputs ==
  {RealArray(len) : len \in 0..MaxLen}
  \cup {ComplexScalar, CharArray("GAUSSIAN_PROCESS_ML"), CharArray("L_ML")}

\* a field load_parameters never looks up
OtherNames == {"comment"}

Configs ==
  UNION {[F -> Inputs] :
           F \in {G \in SUBSET (FieldNames \cup OtherNames) :
                    Cardinality(G) <= MaxPresent}}

NotCalled == [status |-> "not called"]

InitLoad ==
  /\ config \in Configs
  /\ loadResult = NotCalled

LoadParameters ==
  /\ loadResult = NotCalled
  /\ \E s \in load_parameters(config) : loadResult' = Delivered(s)
  /\ UNCHANGED config

-----------------------------------------------------------------------------
(* One accessor call, as load_parameters makes it *)

CallSites ==
  {[kind |-> "size", name |-> "n_iterations", n |-> "", result |-> "n_iterations"],
   [kind |-> "size", name |-> "n_inner_iterations", n |-> "", result |-> "n_inner_iterations"],
   [kind |-> "size", name |-> "n_init_iterations", n |-> "", result |-> "n_init_samples"],
   [kind |-> "size", name |-> "verbose_level", n |-> "", result |-> "verbose_level"],
   [kind |-> "value", name |-> "alpha", n |-> "", result |-> "alpha"],
   [kind |-> "value", name |-> "beta", n |-> "", result |-> "beta"],
   [kind |-> "value", name |-> "noise", n |-> "", result |-> "noise"],
   [kind |-> "array", name |-> "theta", n |-> "kernel_n_theta", result |-> "kernel_theta"],
   [kind |-> "array", name |-> "s_theta", n |-> "n_theta", result |-> "kernel_s_theta"],
   [kind |-> "array", name |-> "mu", n |-> "mean_n_mu", result |-> "mean_mu"],
   [kind |-> "array", name |-> "s_mu", n |-> "n_mu", result |-> "mean_s_mu"],
   [kind |-> "string", name |-> "log_filename", n |-> "", result |-> "log_filename"],
   [kind |-> "string", name |-> "kernel_name", n |-> "", result |-> "kernel_name"],
   [kind |-> "string", name |-> "mean_name", n |-> "", result |-> "mean_name"],
   [kind |-> "string", name |-> "crit_name", n |-> "", result |-> "crit_name"],
   [kind |-> "string", name |-> "surr_name", n |-> "", result |-> "s_str"],
   [kind |-> "string", name |-> "l_type", n |-> "", result |-> "l_str"]}

\* the caller's variables before the call: the defaults, or other contents
Memories ==
  LET parameters == initialize_parameters_to_default
      fresh == [Locals EXCEPT !.n_theta = 1, !.n_mu = 1,
                              !.s_str = "GAUSSIAN_PROCESS",
                              !.l_str = "L_MAP"] @@ parameters
      used  == [fresh EXCEPT !.n_iterations = 7, !.n_inner_iterations = 7,
                  !.n_init_samples = 7, !.verbose_level = 7,
                  !.alpha = 7, !.beta = 7, !.noise = 7,
                  !.kernel_theta = [i \in 1..Capacity |-> 3],
                  !.kernel_s_theta = [i \in 1..Capacity |-> 3],
                  !.mean_mu = [i \in 1..Capacity |-> 3],
                  !.mean_s_mu = [i \in 1..Capacity |-> 3],
                  !.kernel_n_theta = Capacity, !.n_theta = Capacity,
                  !.mean_n_mu = Capacity, !.n_mu = Capacity]
  IN {fresh, used}

Accessor(c, s) ==
  CASE c.kind = "size"   -> struct_size(s, c.params, c.name, c.result)
    [] c.kind = "value"  -> struct_value(s, c.params, c.name, c.result)
    [] c.kind = "array"  -> struct_array(s, c.params, c.name, c.n, c.result)
    [] c.kind = "string" -> struct_string(s, c.params, c.name, c.result)

InitAcc ==
  /\ \E site \in CallSites :
       \E params \in {<<>>} \cup [{site.name} -> Inputs] :
         accCall = [kind |-> site.kind, name |-> site.name, n |-> site.n,
                    result |-> site.result, params |-> params]
  /\ accPre \in Memories
  /\ accPost = NotCalled

CallAccessor ==
  /\ accPost = NotCalled
  /\ \E s \in Accessor(accCall, [status |-> "running", mem |-> accPre,
                                 out |-> <<>>, past |-> FALSE]) :
       accPost' = s
  /\ UNCHANGED <<accCall, accPre>>

-----------------------------------------------------------------------------
(* The objective callback *)

MAXRHS == 2

HostPoints == {[i \in 1..Dim |-> i], [i \in 1..Dim |-> 5]}

RealMatrix(rows, cols) ==
  [cls |-> "double", cplx |-> FALSE, m |-> rows, n |-> cols,
   pr |-> [i \in 1..(rows * cols) |-> 10 * i + 32], str |-> ""]

\* what the host function may hand back as first and as second result
FirstResults ==
  {RealMatrix(1, 1), RealMatrix(1, 2), ComplexScalar, CharArray("oops")}

SecondResults ==
  {RealMatrix(1, Dim), RealMatrix(Dim, 1), RealMatrix(1, Dim + 1),
   [RealMatrix(1, Dim) EXCEPT !.cplx = TRUE], CharArray("oops")}

\* sequencing in a routine with one path
Do(s, stmt(_)) == IF s.status = "running" THEN stmt(s) ELSE s

\* lines 140-146: up to the call of the host function
user_function_call(dd, n, x) ==
  [dd EXCEPT !.plhs = <<"NULL", "NULL">>,
             !.prhs[dd.xrhs + 1] = [i \in 1..n |-> x[i]]]

mxDestroyArray(s, slot) ==
  [s EXCEPT !.d.plhs[slot + 1] = "freed", !.destroyed = @ + 1]

GradientShape(val, n) ==
  /\ mxIsDouble(val) /\ ~mxIsComplex(val)
  /\ (mxGetM(val) = 1 \/ mxGetN(val) = 1)
  /\ mxGetM(val) * mxGetN(val) = n

\* variant: the evaluation is counted before the gradient is looked at
read_gradient_counted(s, n, gradient, res) ==
  IF gradient # NULL
  THEN IF GradientShape(res[2], n)
       THEN mxDestroyArray(
              [s EXCEPT !.gradient = [i \in 1..n |-> mxGetPr(res[2])[i]]], 1)
       ELSE mexErrMsgTxt([s EXCEPT !.d.neval = @ + 1],
              "gradient vector from user function is the wrong size")
  ELSE s

\* lines 158-165: if (gradient) { CHECK0(...); memcpy; mxDestroyArray }
read_gradient(s, n, gradient, res) ==
  IF gradient # NULL
  THEN LET s1 == CHECK0(s, GradientShape(res[2], n),
                   "gradient vector from user function is the wrong size")
       IN Do(s1, LAMBDA u : mxDestroyArray(
              [u EXCEPT !.gradient = [i \in 1..n |-> mxGetPr(res[2])[i]]], 1))
  ELSE s

\* variant: the counter moves only when the call is traced
count_evaluation_if_verbose(s) ==
  IF s.d.verbose # 0 THEN [s EXCEPT !.d.neval = @ + 1] ELSE s

\* line 166: d->neval++
count_evaluation(s) == [s EXCEPT !.d.neval = @ + 1]

\* lines 148-169: from the return of mexCallMATLAB on.  rc is its return
\* code, res the arrays it stored in plhs, gradient the caller's buffer
\* (NULL when no gradient is wanted).
user_function_rest(dd, n, gradient, rc, res) ==
  LET a0 == [status |-> "running",
             d |-> [dd EXCEPT !.plhs =
                      [k \in 1..2 |-> IF k <= Len(res) THEN "live" ELSE @[k]]],
             f |-> 0, gradient |-> gradient, destroyed |-> 0, out |-> <<>>]
      a1 == CHECK0(a0, rc = 0, "error calling user function")
      a2 == Do(a1, LAMBDA s : CHECK0(s,
                 mxIsNumeric(res[1]) /\ ~mxIsComplex(res[1])
                 /\ mxGetM(res[1]) * mxGetN(res[1]) = 1,
                 "user function must return real scalar"))
      a3 == Do(a2, LAMBDA s : [s EXCEPT !.f = mxGetScalar(res[1])])
      a4 == Do(a3, LAMBDA s : mxDestroyArray(s, 0))
      a5 == Do(a4, LAMBDA s : read_gradient(s, n, gradient, res))
      a6 == Do(a5, LAMBDA s : count_evaluation(s))
      a7 == Do(a6, LAMBDA s :
              IF s.d.verbose # 0
              THEN mexPrintf(s, <<"Optimize eval #%d: %g", s.d.neval, s.f>>)
              ELSE s)
  IN Do(a7, LAMBDA s : [s EXCEPT !.status = "returned"])

\* where control is once user_function has been left, by return or by
\* mexErrMsgTxt
\* variant: an error leaves the routine marked as running
ControlAfter_error_stuck(status) ==
  IF status = "returned" THEN "idle" ELSE "invoking"

ControlAfter(status) == "idle"

NoCall == [n |-> 0, x |-> <<>>, gradient |-> NULL]

InitEval ==
  /\ \E v \in {0, 1}, n0 \in {0, 7}, xpos \in 0..(MAXRHS - 1) :
       d = [f |-> "fobj", plhs |-> <<"NULL", "NULL">>,
            prhs |-> [k \in 1..MAXRHS |-> [i \in 1..Dim |-> 0]],
            xrhs |-> xpos, nrhs |-> MAXRHS, verbose |-> v, neval |-> n0]
  /\ pc = "idle"
  /\ call = NoCall
  /\ held = 0
  /\ last = [status |-> "none", f |-> 0, first |-> NULL, gradient |-> NULL,
             out |-> <<>>]
  /\ hist = [calls |-> 0, returned |-> 0, failed |-> 0,
             neval0 |-> d.neval, nevalAtEntry |-> d.neval, heldAtEntry |-> 0]

\* the optimizer calls user_function(n, x, gradient, d)
Enter ==
  /\ pc = "idle"
  /\ hist.calls < MaxCalls
  /\ \E x \in HostPoints, g \in {NULL, [i \in 1..Dim |-> 0]} :
       /\ call' = [n |-> Dim, x |-> x, gradient |-> g]
       /\ d' = user_function_call(d, Dim, x)
  /\ pc' = "invoking"
  /\ hist' = [hist EXCEPT !.calls = @ + 1, !.nevalAtEntry = d.neval,
                          !.heldAtEntry = held]
  /\ UNCHANGED <<held, last>>

Resume(rc, res) ==
  LET s == user_function_rest(d, call.n, call.gradient, rc, res) IN
  /\ d' = s.d
  /\ pc' = ControlAfter(s.status)
  /\ held' = held + Len(res) - s.destroyed
  /\ last' = [status |-> s.status, f |-> s.f,
              first |-> IF Len(res) >= 1 THEN res[1] ELSE NULL,
              gradient |-> s.gradient, out |-> s.out]
  /\ hist' = IF s.status = "returned"
             THEN [hist EXCEPT !.returned = @ + 1]
             ELSE [hist EXCEPT !.failed = @ + 1]
  /\ UNCHANGED call

\* mexCallMATLAB comes back with an error: no result was stored
HostFails ==
  /\ pc = "invoking"
  /\ Resume(1, <<>>)

\* mexCallMATLAB comes back with the results that were asked for
HostReturns ==
  /\ pc = "invoking"
  /\ \E r0 \in FirstResults :
       IF call.gradient # NULL
       THEN \E r1 \in SecondResults : Resume(0, <<r0, r1>>)
       ELSE Resume(0, <<r0>>)

-----------------------------------------------------------------------------
(* Specifications *)

LoadIdle == config = <<>> /\ loadResult = NotCalled
AccIdle  == accCall = <<>> /\ accPre = <<>> /\ accPost = NotCalled
EvalIdle == /\ d = <<>> /\ pc = "unused" /\ call = NoCall /\ held = 0
            /\ last = <<>> /\ hist = <<>>

Init == InitLoad /\ AccIdle /\ EvalIdle
Next == LoadParameters /\ UNCHANGED accVars /\ UNCHANGED evalVars
Spec == Init /\ [][Next]_vars

AccInit == InitAcc /\ LoadIdle /\ EvalIdle
AccNext == CallAccessor /\ UNCHANGED loadVars /\ UNCHANGED evalVars
AccSpec == AccInit /\ [][AccNext]_vars

EvalInit == InitEval /\ LoadIdle /\ AccIdle
EvalNext ==
  \/ Enter /\ UNCHANGED loadVars /\ UNCHANGED accVars
  \/ HostFails /\ UNCHANGED loadVars /\ UNCHANGED accVars
  \/ HostReturns /\ UNCHANGED loadVars /\ UNCHANGED accVars
EvalSpec == EvalInit /\ [][EvalNext]_vars


-----------------------------------------------------------------------------
(* Vocabulary of the properties *)

\* the error classes of the design, by the message the header raises
ErrorKind(status) ==
  CASE status \in {"param fields must be real scalars",
                   "Param fields must be vector",
                   "Method name must be a string",
                   "user function must return real scalar",
                   "gradient vector from user function is the wrong size"}
         -> "TypeError"
    [] status \in {"Error processing kernel parameters",
                   "Error processing mean parameters"}
         -> "ValidationError"
    [] status = "error calling user function" -> "InvocationError"
    [] OTHER -> "none"

Count(val) == mxGetM(val) * mxGetN(val)
IsRealArray(val)  == mxIsNumeric(val) /\ ~mxIsComplex(val)
IsRealScalar(val) == IsRealArray(val) /\ Count(val) = 1

SizeFields   == {"n_iterations", "n_inner_iterations", "n_init_iterations",
                 "verbose_level"}
ValueFields  == {"alpha", "beta", "noise"}
ArrayFields  == {"theta", "s_theta", "mu", "s_mu"}
StringFields == {"log_filename", "kernel_name", "mean_name", "crit_name",
                 "surr_name", "l_type"}

WellFormed(name, val) ==
  CASE name \in SizeFields \cup ValueFields -> IsRealScalar(val)
    [] name \in ArrayFields -> IsRealArray(val)
    [] name \in StringFields -> mxIsChar(val)
    [] OTHER -> TRUE

Present(name) == name \in DOMAIN config
Loaded == loadResult # NotCalled
AllWellFormed == \A f \in DOMAIN config : WellFormed(f, config[f])
Defaults == initialize_parameters_to_default

-----------------------------------------------------------------------------
(* Properties of load_parameters (specification Spec) *)

\* C1: a configuration with none of the optional fields makes
\* load_parameters return, without error, a record equal field by field to
\* the one initialize_parameters_to_default returns.
C1_DefaultsKept ==
  (Loaded /\ DOMAIN config \cap FieldNames = {})
    => /\ loadResult.status = "returned"
       /\ \A f \in ParamFields : loadResult.record[f] = Defaults[f]
       /\ DOMAIN loadResult.record = ParamFields

C1_Witness ==
  /\ DOMAIN config \cap FieldNames = {}
  /\ Present("comment")
  /\ loadResult.status = "returned"

\* C2: a text supplied for surr_name, l_type, log_filename, kernel_name,
\* mean_name or crit_name is what the returned record holds (for the two
\* enumerations: the member the text names).
C2_StringDelivered ==
  (Loaded /\ loadResult.status = "returned")
    => /\ \A f \in {"log_filename", "kernel_name", "mean_name", "crit_name"} :
            (Present(f) /\ mxIsChar(config[f]))
              => loadResult.record[f] = mxArrayToString(config[f])
       /\ (Present("surr_name") /\ mxIsChar(config["surr_name"])
             /\ str2surrogate(mxArrayToString(config["surr_name"])) >= 0)
            => loadResult.record.surr_name
                 = str2surrogate(mxArrayToString(config["surr_name"]))
       /\ (Present("l_type") /\ mxIsChar(config["l_type"])
             /\ str2learn(mxArrayToString(config["l_type"])) >= 0)
            => loadResult.record.l_type
                 = str2learn(mxArrayToString(config["l_type"]))

Unequal(a, b) ==
  /\ Present(a) /\ Present(b)
  /\ IsRealArray(config[a]) /\ IsRealArray(config[b])
  /\ Count(config[a]) # Count(config[b])

\* C3: when theta and s_theta (or mu and s_mu) are real arrays of different
\* element counts, load_parameters fails with a validation error and no
\* record reaches the caller.
C3_UnequalLengthsRejected ==
  (Loaded /\ AllWellFormed
     /\ (Unequal("theta", "s_theta") \/ Unequal("mu", "s_mu")))
    => /\ ErrorKind(loadResult.status) = "ValidationError"
       /\ loadResult.record = NoRecord

Oversize(name) ==
  Present(name) /\ IsRealArray(config[name]) /\ Count(config[name]) > Capacity

\* C4: a real array for theta, s_theta, mu or s_mu with more elements than
\* the destination holds makes load_parameters fail with a capacity error,
\* and nothing is written past the end of the destination.
C4_CapacityChecked ==
  /\ Loaded => ~loadResult.past
  /\ (Loaded /\ AllWellFormed /\ \E f \in ArrayFields : Oversize(f))
       => loadResult.status = "CapacityError"

Only(name) == DOMAIN config \cap FieldNames = {name} /\ IsRealArray(config[name])

\* C10: with only one array of a pair supplied, the load succeeds exactly
\* if its element count equals the default n_theta (n_mu) and otherwise
\* fails with the error of that pair; and a returned record's n_theta
\* equals the element count of every kernel array that was supplied.
C10_AbsentCountsAsDefault ==
  Loaded =>
    /\ \A f \in {"theta", "s_theta"} : Only(f) =>
         IF Count(config[f]) = Defaults.kernel_n_theta
         THEN loadResult.status = "returned"
         ELSE loadResult.status = "Error processing kernel parameters"
    /\ \A f \in {"mu", "s_mu"} : Only(f) =>
         IF Count(config[f]) = Defaults.mean_n_mu
         THEN loadResult.status = "returned"
         ELSE loadResult.status = "Error processing mean parameters"
    /\ loadResult.status = "returned" =>
         \A f \in {"theta", "s_theta"} :
           (Present(f) /\ IsRealArray(config[f]))
             => loadResult.record.kernel_n_theta = Count(config[f])

-----------------------------------------------------------------------------
(* Properties of the four accessors (specification AccSpec) *)

\* C5: every accessor leaves the destination alone, prints exactly one
\* line naming the field and raises nothing when the field is absent;
\* stores the supplied value when the field is well-formed; fails with a
\* type error without writing when the field is malformed.
C5_AccessorRule ==
  accPost # NotCalled =>
    LET val == mxGetField(accCall.params, accCall.name) IN
    IF val = NULL
    THEN /\ accPost.status = "running"
         /\ accPost.mem = accPre
         /\ accPost.out = <<NotFound(accCall.name)>>
    ELSE IF ~WellFormed(accCall.name, val)
    THEN /\ ErrorKind(accPost.status) = "TypeError"
         /\ accPost.mem = accPre
    ELSE /\ accPost.status = "running"
         /\ CASE accCall.kind = "size" ->
                   accPost.mem[accCall.result] = SizeT(mxGetScalar(val))
              [] accCall.kind = "value" ->
                   accPost.mem[accCall.result] = mxGetScalar(val)
              [] accCall.kind = "array" ->
                   /\ ~accPost.past
                   /\ Count(val) <= Capacity
                   /\ accPost.mem[accCall.n] = Count(val)
                   /\ \A i \in 1..Count(val) :
                        accPost.mem[accCall.result][i] = mxGetPr(val)[i]
              [] accCall.kind = "string" ->
                   accPost.mem[accCall.result] = mxArrayToString(val)

-----------------------------------------------------------------------------
(* Properties of user_function (specification EvalSpec) *)

GradientError == "gradient vector from user function is the wrong size"
Left == pc = "idle" /\ hist.calls > 0

\* C6: a call that returns hands back the host function's first result
\* and adds exactly 1 to neval, so neval is its initial value plus the
\* number of calls that returned.
C6_CountsReturnedCalls ==
  /\ d.neval = hist.neval0 + hist.returned
  /\ (Left /\ last.status = "returned")
       => /\ last.f = mxGetScalar(last.first)
          /\ d.neval = hist.nevalAtEntry + 1

C6_Witness ==
  Left /\ last.status = "returned" /\ hist.returned >= 2

\* C7 as claimed: a call whose gradient result fails the shape check has
\* still added 1 to neval.
C7_CountedThoughGradientFails ==
  (Left /\ last.status = GradientError)
    => d.neval = hist.nevalAtEntry + 1

\* C7 as amended: a call whose gradient result fails the shape check fails
\* with a type error after the objective value was read, and leaves neval
\* as it was.
C7_NotCountedWhenGradientFails ==
  (Left /\ last.status = GradientError)
    => /\ ErrorKind(last.status) = "TypeError"
       /\ call.gradient # NULL
       /\ last.f = mxGetScalar(last.first)
       /\ d.neval = hist.nevalAtEntry

C7_Witness ==
  Left /\ last.status = GradientError /\ hist.returned >= 1

\* C8: whenever user_function has been left, every result array the host
\* call created has been destroyed.
C8_ResultsReleased ==
  pc = "idle" => (held = 0 /\ \A k \in 1..2 : d.plhs[k] # "live")

=============================================================================
